---- MODULE Spec2Model ----
(***************************************************************************)
(* Model of src/kafka-consumer-test.py: the session driven by main()       *)
(* (connect, consume_messages, close), the bounded consumption loop of     *)
(* TelemetryConsumer.consume_messages and the three envelope analyzers.    *)
(*                                                                         *)
(* The Kafka iterator (line 121) is the environment: at each pull it may   *)
(* yield a record, raise, end, or simply block.  The wall clock is an      *)
(* integer that advances by Tick.  A KeyboardInterrupt may be delivered at *)
(* any statement boundary inside the try block of consume_messages.        *)
(***************************************************************************)
EXTENDS Integers, Sequences, FiniteSets, TLC

\* ---- bounds of the model ------------------------------------------------
MaxPulled == 3        \* records the iterator yields in one run
MaxTime == 2          \* last clock value
MaxMaxMessages == 2   \* largest max_messages argument tried
MaxTimeout == 1       \* largest timeout argument tried
MaxResourceGroups == 2  \* resource groups in a generated payload
MaxScopeGroups == 2     \* scope groups in a generated resource group
MaxRecords == 2         \* records in a generated scope group

\* ---- program constants --------------------------------------------------
\* line 16
TOPICS == <<"otel.traces", "otel.metrics", "otel.logs">>

TopicSet == {TOPICS[i] : i \in 1..Len(TOPICS)}

\* ---- message values -----------------------------------------------------
\* What value_deserializer (line 34) makes of the bytes of a record:
\*   "none"        empty bytes: the lambda returns None
\*   "undecodable" json.loads / decode raises inside the iterator
\*   "number"      a JSON scalar such as 5 (truthy, not a container)
\*   "list"        a JSON array such as [1] (truthy, not a mapping)
\*   "emptymap"    the JSON object {} (falsy)
\*   "map"         a non-empty JSON object, field d holds it
NoneValue == [t |-> "none"]
Undecodable == [t |-> "undecodable"]
NumberValue == [t |-> "number"]
ListValue == [t |-> "list"]
EmptyMap == [t |-> "emptymap"]

Rec == [name |-> "op"]

\* two resource groups, one scope group each, 3 and 2 span records
TracePayload ==
  [t |-> "map",
   d |-> [resourceSpans |->
            << [scopeSpans |-> << [spans |-> <<Rec, Rec, Rec>>] >>],
               [scopeSpans |-> << [spans |-> <<Rec, Rec>>] >>] >>]]

\* resource groups without the scopeMetrics key
MetricsNoScope ==
  [t |-> "map",
   d |-> [resourceMetrics |-> << [resource |-> "r"] >>]]

\* one resource group, two scope groups, one of them without logRecords
LogsPayload ==
  [t |-> "map",
   d |-> [resourceLogs |->
            << [scopeLogs |-> << [logRecords |-> <<Rec>>],
                                 [scope |-> "s"] >>] >>]]

\* a mapping with none of the expected top-level keys
OtherMap == [t |-> "map", d |-> [other |-> "x"]]

Values == {NoneValue, Undecodable, NumberValue, ListValue, EmptyMap,
           TracePayload, MetricsNoScope, LogsPayload, OtherMap}

Messages == [topic : TopicSet, value : Values]

\* a fetched record: its topic, its deserialized value and the clock value at
\* which the iterator returned it
Fetched(m, at) == [topic |-> m.topic, value |-> m.value, fetched_at |-> at]

NoMessage == [topic |-> "", value |-> NoneValue, fetched_at |-> 0]

Truthy_not_none(v) == v.t # "none"

\* Python truthiness of a deserialized value (lines 60, 138)
Truthy(v) == v.t \in {"number", "list", "map"}

\* ---- analyzers ----------------------------------------------------------
Raises == [kind |-> "raises", n |-> 0]
Unrecognized == [kind |-> "unrecognized", n |-> 0]
Summary(k) == [kind |-> "summary", n |-> k]

\* only the first scope group is counted
ScopeRecords_first(scopes, leaf, i) ==
  IF i > Len(scopes) THEN 0
  ELSE (IF leaf \in DOMAIN scopes[i] THEN Len(scopes[i][leaf]) ELSE 0)

RECURSIVE ScopeRecords(_, _, _)
\* records found in the scope groups i..Len(scopes): len(scope[leaf]) where
\* the leaf key is present, nothing where it is absent
ScopeRecords(scopes, leaf, i) ==
  IF i > Len(scopes) THEN 0
  ELSE (IF leaf \in DOMAIN scopes[i] THEN Len(scopes[i][leaf]) ELSE 0)
       + ScopeRecords(scopes, leaf, i + 1)

RECURSIVE ResourceRecords(_, _, _, _)
\* records found in the resource groups i..Len(groups)
ResourceRecords(groups, mid, leaf, i) ==
  IF i > Len(groups) THEN 0
  ELSE (IF mid \in DOMAIN groups[i]
          THEN ScopeRecords(groups[i][mid], leaf, 1) ELSE 0)
       + ResourceRecords(groups, mid, leaf, i + 1)

\* the intermediate keys are indexed without the `in` tests
Walk_strict(data, top, mid, leaf) ==
  CASE data.t = "number" -> Raises
    [] data.t = "list" -> Unrecognized
    [] data.t = "map" ->
         IF top \in DOMAIN data.d
           THEN IF \E i \in 1..Len(data.d[top]) :
                     \/ mid \notin DOMAIN data.d[top][i]
                     \/ \E j \in 1..Len(data.d[top][i][mid]) :
                          leaf \notin DOMAIN data.d[top][i][mid][j]
                  THEN Raises
                  ELSE Summary(ResourceRecords(data.d[top], mid, leaf, 1))
           ELSE Unrecognized
    [] OTHER -> Unrecognized

\* the three-level walk shared by the three analyzers
Walk(data, top, mid, leaf) ==
  CASE data.t = "number" -> Raises         \* 'key' in 5 raises TypeError
    [] data.t = "list" -> Unrecognized     \* 'key' in [1] is False
    [] data.t = "map" ->
         IF top \in DOMAIN data.d
           THEN Summary(ResourceRecords(data.d[top], mid, leaf, 1))
           ELSE Unrecognized
    [] OTHER -> Unrecognized

analyze_traces(data) == Walk(data, "resourceSpans", "scopeSpans", "spans")

analyze_metrics(data) == Walk(data, "resourceMetrics", "scopeMetrics", "metrics")

analyze_logs(data) == Walk(data, "resourceLogs", "scopeLogs", "logRecords")

\* the analyzer lines 139-144 select for a topic
AnalyzerFor(topic) ==
  CASE topic = "otel.traces" -> "analyze_traces"
    [] topic = "otel.metrics" -> "analyze_metrics"
    [] topic = "otel.logs" -> "analyze_logs"
    [] OTHER -> "none"

Dispatch(topic, data) ==
  CASE topic = "otel.traces" -> analyze_traces(data)
    [] topic = "otel.metrics" -> analyze_metrics(data)
    [] topic = "otel.logs" -> analyze_logs(data)
    [] OTHER -> Unrecognized

\* ---- the per-topic counts ------------------------------------------------
increment_setdefault(counts, topic) ==
  IF topic \in DOMAIN counts
    THEN [raised |-> FALSE, counts |-> [counts EXCEPT ![topic] = @ + 1]]
    ELSE [raised |-> FALSE, counts |-> counts @@ (topic :> 1)]

\* self.message_counts[topic] += 1, line 130: the read of a key the dict does
\* not hold raises KeyError before anything is stored
increment(counts, topic) ==
  IF topic \in DOMAIN counts
    THEN [raised |-> FALSE, counts |-> [counts EXCEPT ![topic] = @ + 1]]
    ELSE [raised |-> TRUE, counts |-> counts]

\* ---- state --------------------------------------------------------------
VARIABLES
  pc,              \* position of the single thread of control
  consumer,        \* self.consumer is set (not None)
  conn_open,       \* the KafkaConsumer connection is open
  message_counts,  \* self.message_counts
  message_count,   \* local of consume_messages
  start_time,      \* local of consume_messages
  now,             \* time.time()
  max_messages,    \* argument
  timeout,         \* argument
  message,         \* the record the iterator fetched last
  pulled,          \* number of records fetched from the iterator
  dispatch_log,    \* per message that reached line 138: [n, to]
  last_summary,    \* what the last analyzer call found
  stop_reasons,    \* exit paths of the loop taken so far
  report,          \* what print_summary printed
  close_calls,     \* calls of close()
  connect_calls    \* calls of connect()

vars == <<pc, consumer, conn_open, message_counts, message_count, start_time,
          now, max_messages, timeout, message, pulled, dispatch_log,
          last_summary, stop_reasons, report, close_calls, connect_calls>>

RECURSIVE SumCounts(_, _)
SumCounts(counts, i) ==
  IF i > Len(TOPICS) THEN 0 ELSE counts[TOPICS[i]] + SumCounts(counts, i + 1)

\* sum(self.message_counts.values()), line 159
total_messages == SumCounts(message_counts, 1)

NoReport == [total |-> -1, counts |-> [tp \in TopicSet |-> 0], verdict |-> "none"]

\* positions inside the try block of consume_messages (lines 118-144)
LoopPcs == {"pull", "chk_time", "chk_max", "count_topic", "count_msg", "analyze"}

Init ==
  /\ pc = "connect"
  /\ consumer = FALSE
  /\ conn_open = FALSE
  /\ message_counts = [tp \in TopicSet |-> 0]
  /\ message_count = 0
  /\ start_time = 0
  /\ now = 0
  /\ max_messages \in -1..MaxMaxMessages
  /\ timeout \in -1..MaxTimeout
  /\ message = NoMessage
  /\ pulled = 0
  /\ dispatch_log = <<>>
  /\ last_summary = Unrecognized
  /\ stop_reasons = {}
  /\ report = NoReport
  /\ close_calls = 0
  /\ connect_calls = 0

\* ---- main and the session ----------------------------------------------
connect_retry ==
  /\ pc = "connect"
  /\ connect_calls' = connect_calls + 1
  /\ \E ok \in BOOLEAN :
       IF ok
         THEN /\ consumer' = TRUE
              /\ conn_open' = TRUE
              /\ pc' = "consume"
         ELSE /\ UNCHANGED <<consumer, conn_open>>
              /\ pc' = IF connect_calls < 1 THEN "connect" ELSE "close"
  /\ UNCHANGED <<message_counts, message_count, start_time, now, max_messages,
                 timeout, message, pulled, dispatch_log, last_summary,
                 stop_reasons, report, close_calls>>

\* connect(), lines 25-40, called once from main line 214
connect ==
  /\ pc = "connect"
  /\ connect_calls' = connect_calls + 1
  /\ \E ok \in BOOLEAN :
       IF ok
         THEN /\ consumer' = TRUE
              /\ conn_open' = TRUE
              /\ pc' = "consume"
         ELSE /\ UNCHANGED <<consumer, conn_open>>
              /\ pc' = "close"
  /\ UNCHANGED <<message_counts, message_count, start_time, now, max_messages,
                 timeout, message, pulled, dispatch_log, last_summary,
                 stop_reasons, report, close_calls>>

\* consume_messages entry, lines 108-119
consume_messages ==
  /\ pc = "consume"
  /\ IF ~consumer
       THEN /\ pc' = "close"
            /\ UNCHANGED <<start_time, message_count>>
       ELSE /\ start_time' = now
            /\ message_count' = 0
            /\ pc' = "pull"
  /\ UNCHANGED <<consumer, conn_open, message_counts, now, max_messages,
                 timeout, message, pulled, dispatch_log, last_summary,
                 stop_reasons, report, close_calls, connect_calls>>

\* ---- the iterator, line 121 --------------------------------------------
\* the iterator fetches a record; a value that does not deserialize raises
\* out of the for statement and is caught at line 148
next_message ==
  /\ pc = "pull"
  /\ pulled < MaxPulled
  /\ \E m \in Messages :
       /\ message' = Fetched(m, now)
       /\ IF m.value = Undecodable
            THEN /\ stop_reasons' = stop_reasons \cup {"SourceError"}
                 /\ pc' = "summary"
            ELSE /\ UNCHANGED stop_reasons
                 /\ pc' = "chk_time"
  /\ pulled' = pulled + 1
  /\ UNCHANGED <<consumer, conn_open, message_counts, message_count,
                 start_time, now, max_messages, timeout, dispatch_log,
                 last_summary, report, close_calls, connect_calls>>

source_error_noreport ==
  /\ pc = "pull"
  /\ stop_reasons' = stop_reasons \cup {"SourceError"}
  /\ pc' = "close"
  /\ UNCHANGED <<consumer, conn_open, message_counts, message_count,
                 start_time, now, max_messages, timeout, message, pulled,
                 dispatch_log, last_summary, report, close_calls,
                 connect_calls>>

\* the iterator raises (KafkaError); caught at line 148
source_error ==
  /\ pc = "pull"
  /\ stop_reasons' = stop_reasons \cup {"SourceError"}
  /\ pc' = "summary"
  /\ UNCHANGED <<consumer, conn_open, message_counts, message_count,
                 start_time, now, max_messages, timeout, message, pulled,
                 dispatch_log, last_summary, report, close_calls,
                 connect_calls>>

\* the iterator ends (StopIteration): the for statement falls through
source_exhausted ==
  /\ pc = "pull"
  /\ stop_reasons' = stop_reasons \cup {"SourceExhausted"}
  /\ pc' = "summary"
  /\ UNCHANGED <<consumer, conn_open, message_counts, message_count,
                 start_time, now, max_messages, timeout, message, pulled,
                 dispatch_log, last_summary, report, close_calls,
                 connect_calls>>

\* ---- the loop body ------------------------------------------------------
chk_time_late ==
  /\ pc = "chk_time"
  /\ IF now - start_time > timeout + 1
       THEN /\ stop_reasons' = stop_reasons \cup {"TimeoutReached"}
            /\ pc' = "summary"
       ELSE /\ UNCHANGED stop_reasons
            /\ pc' = "chk_max"
  /\ UNCHANGED <<consumer, conn_open, message_counts, message_count,
                 start_time, now, max_messages, timeout, message, pulled,
                 dispatch_log, last_summary, report, close_calls,
                 connect_calls>>

chk_time_nobreak ==
  /\ pc = "chk_time"
  /\ IF now - start_time > timeout
       THEN stop_reasons' = stop_reasons \cup {"TimeoutReached"}
       ELSE UNCHANGED stop_reasons
  /\ pc' = "chk_max"
  /\ UNCHANGED <<consumer, conn_open, message_counts, message_count,
                 start_time, now, max_messages, timeout, message, pulled,
                 dispatch_log, last_summary, report, close_calls,
                 connect_calls>>

\* lines 122-124
chk_time ==
  /\ pc = "chk_time"
  /\ IF now - start_time > timeout
       THEN /\ stop_reasons' = stop_reasons \cup {"TimeoutReached"}
            /\ pc' = "summary"
       ELSE /\ UNCHANGED stop_reasons
            /\ pc' = "chk_max"
  /\ UNCHANGED <<consumer, conn_open, message_counts, message_count,
                 start_time, now, max_messages, timeout, message, pulled,
                 dispatch_log, last_summary, report, close_calls,
                 connect_calls>>

chk_max_offbyone ==
  /\ pc = "chk_max"
  /\ IF message_count > max_messages
       THEN /\ stop_reasons' = stop_reasons \cup {"MaxMessagesReached"}
            /\ pc' = "summary"
       ELSE /\ UNCHANGED stop_reasons
            /\ pc' = "count_topic"
  /\ UNCHANGED <<consumer, conn_open, message_counts, message_count,
                 start_time, now, max_messages, timeout, message, pulled,
                 dispatch_log, last_summary, report, close_calls,
                 connect_calls>>

\* lines 126-128
chk_max ==
  /\ pc = "chk_max"
  /\ IF message_count >= max_messages
       THEN /\ stop_reasons' = stop_reasons \cup {"MaxMessagesReached"}
            /\ pc' = "summary"
       ELSE /\ UNCHANGED stop_reasons
            /\ pc' = "count_topic"
  /\ UNCHANGED <<consumer, conn_open, message_counts, message_count,
                 start_time, now, max_messages, timeout, message, pulled,
                 dispatch_log, last_summary, report, close_calls,
                 connect_calls>>

count_topic_if_value ==
  /\ pc = "count_topic"
  /\ message_counts' =
       IF Truthy(message.value)
         THEN [message_counts EXCEPT ![message.topic] = @ + 1]
         ELSE message_counts
  /\ pc' = "count_msg"
  /\ UNCHANGED stop_reasons
  /\ UNCHANGED <<consumer, conn_open, message_count, start_time, now,
                 max_messages, timeout, message, pulled, dispatch_log,
                 last_summary, report, close_calls, connect_calls>>

count_topic_twice ==
  /\ pc = "count_topic"
  /\ message_counts' = increment(increment(message_counts, message.topic).counts,
                                 message.topic).counts
  /\ pc' = "count_msg"
  /\ UNCHANGED <<consumer, conn_open, message_count, start_time, now,
                 max_messages, timeout, message, pulled, dispatch_log,
                 last_summary, stop_reasons, report, close_calls,
                 connect_calls>>

\* line 130; the KeyError of an unregistered topic is caught at line 148
count_topic ==
  /\ pc = "count_topic"
  /\ LET r == increment(message_counts, message.topic) IN
       /\ message_counts' = r.counts
       /\ IF r.raised
            THEN /\ stop_reasons' = stop_reasons \cup {"SourceError"}
                 /\ pc' = "summary"
            ELSE /\ UNCHANGED stop_reasons
                 /\ pc' = "count_msg"
  /\ UNCHANGED <<consumer, conn_open, message_count, start_time, now,
                 max_messages, timeout, message, pulled, dispatch_log,
                 last_summary, report, close_calls, connect_calls>>

count_msg_if_value ==
  /\ pc = "count_msg"
  /\ message_count' = IF Truthy(message.value) THEN message_count + 1
                                               ELSE message_count
  /\ pc' = "analyze"
  /\ UNCHANGED <<consumer, conn_open, message_counts, start_time, now,
                 max_messages, timeout, message, pulled, dispatch_log,
                 last_summary, stop_reasons, report, close_calls,
                 connect_calls>>

\* lines 131-135 (the prints change no state)
count_msg ==
  /\ pc = "count_msg"
  /\ message_count' = message_count + 1
  /\ pc' = "analyze"
  /\ UNCHANGED <<consumer, conn_open, message_counts, start_time, now,
                 max_messages, timeout, message, pulled, dispatch_log,
                 last_summary, stop_reasons, report, close_calls,
                 connect_calls>>

\* lines 138-144; an exception of the analyzer is caught at line 148
analyze ==
  /\ pc = "analyze"
  /\ IF ~Truthy(message.value)
       THEN /\ dispatch_log' = Append(dispatch_log, [n |-> pulled, to |-> "none"])
            /\ pc' = "pull"
            /\ UNCHANGED <<last_summary, stop_reasons>>
       ELSE /\ dispatch_log' =
                 Append(dispatch_log,
                        [n |-> pulled, to |-> AnalyzerFor(message.topic)])
            /\ LET r == Dispatch(message.topic, message.value) IN
                 IF r = Raises
                   THEN /\ stop_reasons' = stop_reasons \cup {"SourceError"}
                        /\ pc' = "summary"
                        /\ UNCHANGED last_summary
                   ELSE /\ last_summary' = r
                        /\ pc' = "pull"
                        /\ UNCHANGED stop_reasons
  /\ UNCHANGED <<consumer, conn_open, message_counts, message_count,
                 start_time, now, max_messages, timeout, message, pulled,
                 report, close_calls, connect_calls>>

\* KeyboardInterrupt inside the try block, handled at lines 146-147
interrupt ==
  /\ pc \in LoopPcs
  /\ stop_reasons' = stop_reasons \cup {"UserInterrupt"}
  /\ pc' = "summary"
  /\ UNCHANGED <<consumer, conn_open, message_counts, message_count,
                 start_time, now, max_messages, timeout, message, pulled,
                 dispatch_log, last_summary, report, close_calls,
                 connect_calls>>

\* ---- report and release -------------------------------------------------
Verdict_nonnegative(total) ==
  IF total >= 0 THEN "ingestion healthy" ELSE "no data observed"

Verdict(total) == IF total > 0 THEN "ingestion healthy" ELSE "no data observed"

\* the finally clause, line 151, and print_summary, lines 153-174
print_summary ==
  /\ pc = "summary"
  /\ report' = [total |-> total_messages,
                counts |-> message_counts,
                verdict |-> Verdict(total_messages)]
  /\ pc' = "close"
  /\ UNCHANGED <<consumer, conn_open, message_counts, message_count,
                 start_time, now, max_messages, timeout, message, pulled,
                 dispatch_log, last_summary, stop_reasons, close_calls,
                 connect_calls>>

close_noop ==
  /\ pc = "close"
  /\ close_calls' = close_calls + 1
  /\ pc' = "exit"
  /\ UNCHANGED <<consumer, conn_open, message_counts, message_count,
                 start_time, now, max_messages, timeout, message, pulled,
                 dispatch_log, last_summary, stop_reasons, report,
                 connect_calls>>

\* main's finally, lines 216-217, and close(), lines 176-180
close ==
  /\ pc = "close"
  /\ close_calls' = close_calls + 1
  /\ conn_open' = IF consumer THEN FALSE ELSE conn_open
  /\ pc' = "exit"
  /\ UNCHANGED <<consumer, message_counts, message_count, start_time, now,
                 max_messages, timeout, message, pulled, dispatch_log,
                 last_summary, stop_reasons, report, connect_calls>>

\* ---- the clock ----------------------------------------------------------
Tick ==
  /\ pc \in LoopPcs
  /\ now < MaxTime
  /\ now' = now + 1
  /\ UNCHANGED <<pc, consumer, conn_open, message_counts, message_count,
                 start_time, max_messages, timeout, message, pulled,
                 dispatch_log, last_summary, stop_reasons, report,
                 close_calls, connect_calls>>

\* the steps the interpreter takes by itself
Program ==
  \/ connect
  \/ consume_messages
  \/ chk_time
  \/ chk_max
  \/ count_topic
  \/ count_msg
  \/ analyze
  \/ print_summary
  \/ close

Next ==
  \/ connect
  \/ consume_messages
  \/ next_message
  \/ source_error
  \/ source_exhausted
  \/ chk_time
  \/ chk_max
  \/ count_topic
  \/ count_msg
  \/ analyze
  \/ interrupt
  \/ print_summary
  \/ close
  \/ Tick

Spec == Init /\ [][Next]_vars

\* The interpreter keeps running and the clock keeps advancing; nothing
\* obliges the broker to deliver, fail or end, nor the user to interrupt.
\* At pc = "pull" the thread is inside the iterator of line 121, which was
\* built without consumer_timeout_ms (lines 28-35): no step of Program is
\* enabled there, whatever the clock shows, until the iterator returns.
FairSpec == Spec /\ WF_vars(Program) /\ WF_vars(Tick)

\* ---- the analyzers on their own -----------------------------------------
\* mappings of the envelope shape: up to MaxResourceGroups resource groups,
\* each without the mid key or with up to MaxScopeGroups scope groups, each
\* without the leaf key or with up to MaxRecords records
GenPayloads(top, mid, leaf) ==
  LET Recs == UNION {[1..n -> {Rec}] : n \in 0..MaxRecords}
      Scopes == {[scope |-> "s"]} \cup {leaf :> r : r \in Recs}
      ScopeSeqs == UNION {[1..n -> Scopes] : n \in 0..MaxScopeGroups}
      Groups == {[resource |-> "r"]} \cup {mid :> ss : ss \in ScopeSeqs}
      GroupSeqs == UNION {[1..n -> Groups] : n \in 0..MaxResourceGroups}
  IN {[t |-> "map", d |-> top :> g] : g \in GroupSeqs}

Payloads ==
  GenPayloads("resourceSpans", "scopeSpans", "spans")
    \cup GenPayloads("resourceMetrics", "scopeMetrics", "metrics")
    \cup GenPayloads("resourceLogs", "scopeLogs", "logRecords")
    \cup {TracePayload, MetricsNoScope, LogsPayload, OtherMap}

AnalyzerInit ==
  /\ pc = "analyzer_ready"
  /\ consumer = FALSE
  /\ conn_open = FALSE
  /\ message_counts = [tp \in TopicSet |-> 0]
  /\ message_count = 0
  /\ start_time = 0
  /\ now = 0
  /\ max_messages = 1
  /\ timeout = 1
  /\ message \in {Fetched([topic |-> tp, value |-> v], 0) :
                    tp \in TopicSet, v \in Payloads}
  /\ pulled = 0
  /\ dispatch_log = <<>>
  /\ last_summary = Unrecognized
  /\ stop_reasons = {}
  /\ report = NoReport
  /\ close_calls = 0
  /\ connect_calls = 0

analyzer_call_counting ==
  /\ pc \in {"analyzer_ready", "analyzer_done"}
  /\ last_summary' = Dispatch(message.topic, message.value)
  /\ message_count' = message_count + 1
  /\ pc' = IF pc = "analyzer_ready" THEN "analyzer_done" ELSE "analyzer_repeated"
  /\ UNCHANGED <<consumer, conn_open, message_counts, start_time,
                 now, max_messages, timeout, message, pulled, dispatch_log,
                 stop_reasons, report, close_calls, connect_calls>>

\* one call of the analyzer of the topic (lines 66-106) on the payload; it
\* is called a first and then a second time on the same payload
analyzer_call ==
  /\ pc \in {"analyzer_ready", "analyzer_done"}
  /\ last_summary' = Dispatch(message.topic, message.value)
  /\ pc' = IF pc = "analyzer_ready" THEN "analyzer_done" ELSE "analyzer_repeated"
  /\ UNCHANGED <<consumer, conn_open, message_counts, message_count, start_time,
                 now, max_messages, timeout, message, pulled, dispatch_log,
                 stop_reasons, report, close_calls, connect_calls>>

AnalyzerNext == analyzer_call

AnalyzerSpec == AnalyzerInit /\ [][AnalyzerNext]_vars

\* ---- the per-topic counts on their own ---------------------------------
\* line 130 applied to the dict of line 23 for any topic name, registered or
\* not: the counts are the state, the topic is the input
UnregisteredTopic == "otel.unregistered"

AccountantInit ==
  /\ pc = "increment"
  /\ consumer = FALSE
  /\ conn_open = FALSE
  /\ message_counts = [tp \in TopicSet |-> 0]
  /\ message_count = 0
  /\ start_time = 0
  /\ now = 0
  /\ max_messages \in -1..MaxMaxMessages
  /\ timeout \in -1..MaxTimeout
  /\ message = NoMessage
  /\ pulled = 0
  /\ dispatch_log = <<>>
  /\ last_summary = Unrecognized
  /\ stop_reasons = {}
  /\ report = NoReport
  /\ close_calls = 0
  /\ connect_calls = 0

accountant_increment ==
  /\ pc \in {"increment", "increment_raised"}
  /\ \E tp \in TopicSet \cup {UnregisteredTopic} :
       LET r == increment(message_counts, tp) IN
         /\ \A t \in DOMAIN r.counts : r.counts[t] <= MaxPulled
         /\ message_counts' = r.counts
         /\ message' = Fetched([topic |-> tp, value |-> NoneValue], now)
         /\ pc' = IF r.raised THEN "increment_raised" ELSE "increment"
  /\ UNCHANGED <<consumer, conn_open, message_count, start_time, now,
                 max_messages, timeout, pulled, dispatch_log, last_summary,
                 stop_reasons, report, close_calls, connect_calls>>

AccountantNext == accountant_increment

AccountantSpec == AccountantInit /\ [][AccountantNext]_vars

TypeOK ==
  /\ pc \in LoopPcs \cup {"connect", "consume", "summary", "close", "exit"}
  /\ consumer \in BOOLEAN
  /\ conn_open \in BOOLEAN
  /\ message_counts \in [TopicSet -> 0..MaxPulled]
  /\ message_count \in 0..MaxPulled
  /\ now \in 0..MaxTime
  /\ pulled \in 0..MaxPulled
  /\ stop_reasons \subseteq {"MaxMessagesReached", "TimeoutReached",
                             "UserInterrupt", "SourceExhausted", "SourceError"}

\* ---- properties ---------------------------------------------------------
Terminated == consumer /\ pc \in {"summary", "close", "exit"}

\* messages that reached line 138 and were handed to an analyzer
NumAnalyzed == Cardinality({i \in 1..Len(dispatch_log) : dispatch_log[i].to # "none"})

\* messages that reached line 138 with an absent or empty value
NumSkipped == Cardinality({i \in 1..Len(dispatch_log) : dispatch_log[i].to = "none"})

AtMostOnce ==
  \A i, j \in 1..Len(dispatch_log) :
    i # j => dispatch_log[i].n # dispatch_log[j].n

\* the arguments the loop is specified for: max_messages >= 1, timeout > 0
ValidArgs == max_messages >= 1 /\ timeout >= 1

\* a value that fails to decode or decodes to something that is not a mapping
Malformed(v) == v.t \in {"undecodable", "number", "list"}

\* C1: when message number max_messages + 1 is fetched and checked while the
\* elapsed time is within the timeout (max_messages >= 1, no interrupt, no
\* source error), the loop has stopped with exactly max_messages messages
\* counted, the only stop reason is MaxMessagesReached, and that message is
\* neither counted nor handed to an analyzer.
C1_StopsAtMaxMessages ==
  ( /\ max_messages >= 1
    /\ pulled = max_messages + 1
    /\ pc \notin {"chk_time", "chk_max"}
    /\ now - start_time <= timeout
    /\ "UserInterrupt" \notin stop_reasons
    /\ "SourceError" \notin stop_reasons )
  => /\ stop_reasons = {"MaxMessagesReached"}
     /\ message_count = max_messages
     /\ total_messages = max_messages
     /\ \A i \in 1..Len(dispatch_log) : dispatch_log[i].n # max_messages + 1

C1_Witness ==
  /\ pc = "exit"
  /\ max_messages >= 1
  /\ pulled = max_messages + 1
  /\ now - start_time <= timeout
  /\ stop_reasons = {"MaxMessagesReached"}
  /\ total_messages = max_messages

\* C2: for valid arguments, if the source has produced no message and the
\* elapsed time has passed the timeout, the loop eventually stops with reason TimeoutReached, a
\* total of 0 and the verdict "no data observed" (unless the user
\* interrupts or the source fails or ends).
C2_IdleSourceTimesOut ==
  (ValidArgs /\ pc = "pull" /\ pulled = 0 /\ now - start_time > timeout)
    ~> ( \/ /\ stop_reasons = {"TimeoutReached"}
            /\ report.total = 0
            /\ report.verdict = "no data observed"
         \/ stop_reasons \cap {"UserInterrupt", "SourceError", "SourceExhausted"} # {} )

\* C3: for valid arguments, when the source has delivered n <= max_messages
\* messages before the timeout, all of them accepted, and delivers no further one, the loop eventually stops with
\* SourceExhausted or SourceError and a total of n (unless the user
\* interrupts); it does not need a further message to stop.
C3_StopsAfterLastMessage ==
  \A n \in 0..MaxPulled :
    ( /\ ValidArgs
      /\ pc = "pull"
      /\ pulled = n
      /\ message_count = n
      /\ n <= max_messages
      /\ now - start_time < timeout )
      ~> ( \/ /\ stop_reasons \cap {"SourceExhausted", "SourceError"} # {}
              /\ total_messages = n
           \/ pulled > n
           \/ "UserInterrupt" \in stop_reasons )

\* C4: for valid arguments, a malformed value never aborts the loop: fetching it does not end the
\* loop, it adds exactly one to its topic's count, its analysis is recorded
\* as Unrecognized and the loop goes on to the next pull.
C4_MalformedNeverAborts ==
  [][ ValidArgs =>
      /\ (pc = "pull" /\ pulled' = pulled + 1 /\ Malformed(message'.value))
         => pc' = "chk_time"
      /\ (pc = "count_topic" /\ pc' = "count_msg" /\ Malformed(message.value))
         => message_counts'[message.topic] = message_counts[message.topic] + 1
      /\ (pc = "analyze" /\ Malformed(message.value)
          /\ "UserInterrupt" \notin stop_reasons')
         => (pc' = "pull" /\ last_summary' = Unrecognized) ]_vars

\* C5: for valid arguments, an interrupt stops the loop only once the in-flight message has been
\* fully processed (no message is counted without having reached its
\* analysis) and UserInterrupt is the only reason recorded.
C5_InterruptAtSafePoint ==
  (ValidArgs /\ "UserInterrupt" \in stop_reasons)
    => /\ stop_reasons = {"UserInterrupt"}
       /\ total_messages = Len(dispatch_log)
       /\ message_count = Len(dispatch_log)

\* C6: once the connection has succeeded, a run of consume that has ended
\* (for whatever stop reason) has produced the report, and the report shows
\* the counts gathered so far.
C6_ReportAlwaysProduced ==
  (consumer /\ pc \in {"close", "exit"})
    => /\ stop_reasons # {}
       /\ report # NoReport
       /\ report.counts = message_counts
       /\ report.total = total_messages

C6_Witness ==
  /\ pc = "exit"
  /\ consumer
  /\ "SourceError" \in stop_reasons
  /\ report.total > 0
  /\ report.counts = message_counts

\* C7: a session that has ended has executed close exactly once and holds no
\* open connection.
C7_CloseOnEveryExit ==
  pc = "exit" => (close_calls = 1 /\ ~conn_open)

C7_Witness ==
  /\ pc = "exit"
  /\ consumer
  /\ ~conn_open
  /\ close_calls = 1
  /\ "UserInterrupt" \in stop_reasons

\* C8 as stated: for valid arguments, at every message boundary the sum of the per-topic counts
\* equals the number of messages handed to an analyzer, and no message is
\* analyzed twice.
C8_CountsEqualDispatched ==
  (ValidArgs /\ pc = "pull") => (total_messages = NumAnalyzed /\ AtMostOnce)

\* C8 as amended: at every message boundary the sum of the per-topic counts
\* equals the number of messages handed to an analyzer plus the number of
\* accepted messages whose value was absent or empty (those are counted but
\* handed to no analyzer), and no message is analyzed twice.
C8_CountsEqualDispatchedPlusEmpty ==
  pc = "pull" => (total_messages = NumAnalyzed + NumSkipped /\ AtMostOnce)

C8_Witness ==
  /\ pc = "pull"
  /\ NumSkipped >= 1
  /\ NumAnalyzed >= 1
  /\ total_messages = NumAnalyzed + NumSkipped

\* C9: a terminated run has recorded exactly one stop reason, also when the
\* timeout and the message limit are reached at the same message.
C9_OneStopReason ==
  Terminated
    => /\ Cardinality(stop_reasons) = 1
       /\ stop_reasons \subseteq {"MaxMessagesReached", "TimeoutReached",
                                  "UserInterrupt", "SourceExhausted",
                                  "SourceError"}

C9_Witness ==
  /\ pc = "exit"
  /\ max_messages >= 1
  /\ message_count >= max_messages
  /\ pulled = message_count + 1
  /\ stop_reasons = {"TimeoutReached"}

\* C10: after connect has failed there is no second connect, no message is
\* pulled, counted or analyzed, and every per-topic count is zero.
C10_ConnectFailureTerminal ==
  (connect_calls >= 1 /\ ~consumer)
    => /\ connect_calls = 1
       /\ pc \in {"close", "exit"}
       /\ pulled = 0
       /\ message_count = 0
       /\ dispatch_log = <<>>
       /\ \A tp \in TopicSet : message_counts[tp] = 0

C10_Witness ==
  /\ pc = "exit"
  /\ ~consumer
  /\ connect_calls = 1
  /\ close_calls = 1
  /\ total_messages = 0

\* C11: the report's verdict is "ingestion healthy" exactly when the total of
\* the per-topic counts it shows is greater than 0 and "no data observed"
\* exactly when that total is 0, whatever stop reason ended the run.
C11_VerdictFollowsTotal ==
  report # NoReport
    => /\ report.total = SumCounts(report.counts, 1)
       /\ report.total >= 0
       /\ (report.verdict = "ingestion healthy") <=> (report.total > 0)
       /\ (report.verdict = "no data observed") <=> (report.total = 0)

C11_Witness ==
  /\ report # NoReport
  /\ report.total = 0
  /\ report.verdict = "no data observed"
  /\ stop_reasons = {"MaxMessagesReached"}

\* the elapsed time at which the last record was fetched
FetchedElapsed == message.fetched_at - start_time

\* the last fetched record went through the checks of lines 122-128 without
\* the run being interrupted and without its value failing to deserialize
CheckedUndisturbed ==
  /\ pulled >= 1
  /\ pc # "chk_time"
  /\ message.value # Undecodable
  /\ "UserInterrupt" \notin stop_reasons

\* C13 as stated: for valid arguments, a message pulled once the elapsed time
\* has reached the timeout (elapsed >= timeout) is never counted or analyzed,
\* and the run it ends records TimeoutReached.
C13_StopsWhenTimeoutReached ==
  (ValidArgs /\ CheckedUndisturbed /\ FetchedElapsed >= timeout)
    => /\ pc \notin {"count_topic", "count_msg", "analyze"}
       /\ pc \in {"summary", "close", "exit"} => stop_reasons = {"TimeoutReached"}
       /\ Len(dispatch_log) < pulled
       /\ total_messages < pulled

\* C13 as amended: a message pulled once the elapsed time has exceeded the
\* timeout (elapsed > timeout) is never counted or analyzed, and the run it
\* ends records TimeoutReached.
C13_StopsWhenTimeoutExceeded ==
  (CheckedUndisturbed /\ FetchedElapsed > timeout)
    => /\ pc \notin {"count_topic", "count_msg", "analyze"}
       /\ pc \in {"summary", "close", "exit"} => stop_reasons = {"TimeoutReached"}
       /\ Len(dispatch_log) < pulled
       /\ total_messages < pulled

C13_Witness ==
  /\ pc = "exit"
  /\ ValidArgs
  /\ pulled = 2
  /\ FetchedElapsed > timeout
  /\ stop_reasons = {"TimeoutReached"}
  /\ total_messages = 1
  /\ Len(dispatch_log) = 1

\* C16: the per-topic counts start with exactly the configured topics, each
\* at zero; every step leaves each count unchanged or one higher, no count
\* is negative and the set of topics never changes.
C16_CountsMonotone ==
  /\ message_counts = [tp \in TopicSet |-> 0]
  /\ [][ /\ DOMAIN message_counts' = TopicSet
         /\ \A tp \in TopicSet :
              /\ message_counts'[tp] \in {message_counts[tp], message_counts[tp] + 1}
              /\ message_counts'[tp] >= 0 ]_vars

C16_Witness ==
  /\ message_counts["otel.traces"] = 2
  /\ message_counts["otel.metrics"] = 0
  /\ DOMAIN message_counts = TopicSet

\* C19: at every message boundary of a run the running message count equals
\* the sum of the per-topic counts, and for max_messages >= 0 it never
\* exceeds max_messages.
C19_RunningCountMatches ==
  /\ pc = "pull" => message_count = total_messages
  /\ max_messages >= 0 => message_count <= max_messages

C19_Witness ==
  /\ pc = "pull"
  /\ max_messages = 2
  /\ message_count = max_messages
  /\ total_messages = 2
  /\ message_counts["otel.logs"] = 1
  /\ now > start_time

\* C20: the step of lines 138-144 finds its message already counted (per
\* topic and in the running count); a message with an absent or empty value
\* is handed to no analyzer and the loop goes on to the next pull; a message
\* with a non-empty value is handed to exactly the analyzer of its topic.
C20_EmptyValueCountedNotAnalyzed ==
  [][ (pc = "analyze" /\ Len(dispatch_log') = Len(dispatch_log) + 1)
      => LET e == dispatch_log'[Len(dispatch_log')] IN
           /\ e.n = pulled
           /\ message_count = Len(dispatch_log')
           /\ total_messages = Len(dispatch_log')
           /\ message_counts[message.topic] >= 1
           /\ message.value.t \in {"none", "emptymap"}
                => (e.to = "none" /\ pc' = "pull" /\ stop_reasons' = stop_reasons)
           /\ message.value.t \notin {"none", "emptymap"}
                => (e.to = AnalyzerFor(message.topic) /\ e.to # "none") ]_vars

C20_Witness ==
  /\ pc = "pull"
  /\ Len(dispatch_log) = 2
  /\ dispatch_log[1].to = "analyze_metrics"
  /\ dispatch_log[2].to = "none"
  /\ message.value = EmptyMap
  /\ message_count = 2
  /\ total_messages = 2

\* C12: incrementing the count of a topic that was not registered at
\* initialization raises (KeyError) and leaves the counts as they were: no
\* count changes and no entry is created.
C12_UnknownTopicRaises ==
  [][ (pc \in {"increment", "increment_raised"} /\ message'.topic \notin TopicSet)
      => /\ pc' = "increment_raised"
         /\ message_counts' = message_counts
         /\ DOMAIN message_counts' = TopicSet ]_vars

C12_Witness ==
  /\ pc = "increment_raised"
  /\ message.topic = UnregisteredTopic
  /\ DOMAIN message_counts = TopicSet
  /\ total_messages = 2
  /\ message_counts["otel.logs"] = 1

\* the keys of the envelope of a topic: resource level, scope level, records
TopKey(topic) ==
  CASE topic = "otel.traces" -> "resourceSpans"
    [] topic = "otel.metrics" -> "resourceMetrics"
    [] OTHER -> "resourceLogs"

MidKey(topic) ==
  CASE topic = "otel.traces" -> "scopeSpans"
    [] topic = "otel.metrics" -> "scopeMetrics"
    [] OTHER -> "scopeLogs"

LeafKey(topic) ==
  CASE topic = "otel.traces" -> "spans"
    [] topic = "otel.metrics" -> "metrics"
    [] OTHER -> "logRecords"

\* the records of a payload, one triple (resource group, scope group, record)
\* each
RecordsOf(groups, mid, leaf) ==
  UNION { UNION { {<<i, j, k>> : k \in 1..Len(groups[i][mid][j][leaf])} :
                  j \in {jj \in 1..Len(groups[i][mid]) :
                           leaf \in DOMAIN groups[i][mid][jj]} } :
          i \in {ii \in 1..Len(groups) : mid \in DOMAIN groups[ii]} }

Analyzed == pc \in {"analyzer_done", "analyzer_repeated"}

\* C14: for a payload that holds the top-level key of its topic, the count
\* the analyzer reports is the number of records over all resource groups
\* and all their scope groups (3 and 2 spans in two resource groups give 5);
\* traces, metrics and logs alike.
C14_CountIsSumOverGroups ==
  (Analyzed /\ TopKey(message.topic) \in DOMAIN message.value.d)
    => /\ last_summary.kind = "summary"
       /\ last_summary.n =
            Cardinality(RecordsOf(message.value.d[TopKey(message.topic)],
                                  MidKey(message.topic), LeafKey(message.topic)))
       /\ (message.topic = "otel.traces" /\ message.value = TracePayload)
            => last_summary.n = 5

C14_Witness ==
  /\ pc = "analyzer_done"
  /\ message.topic = "otel.traces"
  /\ message.value = TracePayload
  /\ last_summary = Summary(5)

\* every resource group of the payload lacks the scope-level key
NoMidKey(groups, mid) == \A i \in 1..Len(groups) : mid \notin DOMAIN groups[i]

\* every scope group of the payload lacks the record-level key
NoLeafKey(groups, mid, leaf) ==
  \A i \in 1..Len(groups) :
    mid \in DOMAIN groups[i]
      => \A j \in 1..Len(groups[i][mid]) : leaf \notin DOMAIN groups[i][mid][j]

\* C15: for a mapping, an absent container key never makes the analyzer
\* raise and contributes no record: nothing is found without the top-level
\* key, and the count is 0 when the resource groups lack the scope-level key
\* (a metrics payload without scopeMetrics) or the scope groups lack the
\* record-level key.
C15_AbsentKeysCountZero ==
  Analyzed
    => /\ last_summary.kind # "raises"
       /\ TopKey(message.topic) \notin DOMAIN message.value.d
            => last_summary = Unrecognized
       /\ TopKey(message.topic) \in DOMAIN message.value.d
            => LET groups == message.value.d[TopKey(message.topic)] IN
                 ( \/ NoMidKey(groups, MidKey(message.topic))
                   \/ NoLeafKey(groups, MidKey(message.topic), LeafKey(message.topic)) )
                 => last_summary = Summary(0)

C15_Witness ==
  /\ pc = "analyzer_done"
  /\ message.topic = "otel.metrics"
  /\ message.value = MetricsNoScope
  /\ last_summary = Summary(0)

C17_NonPositiveArgsStopAtOnce ==
  ((max_messages <= 0 \/ timeout <= 0) /\ pc = "pull" /\ pulled = 0)
    ~> ( \/ /\ stop_reasons \cap {"MaxMessagesReached", "TimeoutReached"} # {}
            /\ total_messages = 0
            /\ dispatch_log = <<>>
         \/ stop_reasons \cap {"UserInterrupt", "SourceError", "SourceExhausted"} # {} )

====
